---------------------------- MODULE Spec2Model ----------------------------
(***************************************************************************)
(* Model of local_llm: the programmatic llama-server launcher              *)
(* (python/src/local_llm/server.py) and the chat client                    *)
(* (python/src/local_llm/client.py).                                       *)
(*                                                                         *)
(* Time is counted in ticks of the polling interval of _wait_health        *)
(* (time.sleep(0.25)): one tick is 0.25 s.                                 *)
(***************************************************************************)
EXTENDS Integers, Sequences, FiniteSets, TLC

(***************************************************************************)
(* Bounds of the model.                                                    *)
(***************************************************************************)
\* health_timeout ranges over 0..MaxHealthTimeout ticks.
MaxHealthTimeout == 2
\* A call differs from the plain valid call in at most this many options.
MaxDeviations == 2
\* Lines the child writes to its output.
MaxLines == 2
\* Operations the caller invokes on a returned handle.
MaxOps == 2
\* get_response is called with retries in 0..MaxRetries.
MaxRetries == 4
\* The first MaxScript answers of the server vary; it then repeats the last.
MaxScript == 3
\* The name given to multiple_choice_grammar has at most MaxNameLen characters.
MaxNameLen == 2
\* A choice literal has at most MaxChoiceLen characters.
MaxChoiceLen == 2
\* wait_model_ready is called with timeout in 0..MaxReadyTimeout ticks.
MaxReadyTimeout == 2
\* wait_model_ready is called with interval in 1..MaxInterval ticks.
MaxInterval == 2
\* A models-listing request takes 0..MaxPollTicks ticks.
MaxPollTicks == 1

(***************************************************************************)
(* Program constants.                                                      *)
(***************************************************************************)
\* time.sleep(0.25): one tick.
SleepTicks == 1
\* urlopen(url, timeout=0.5): two ticks.
UrlTimeoutTicks == 2
\* port: int = 8080
DefaultPort == 8080
\* if port > 65535
MaxPort == 65535
\* proc.stdout.readlines()[-200:]
TailLines == 200

(***************************************************************************)
(* Python values of the keyword arguments.  An argument is omitted         *)
(* (Missing), None, an int, or a value of another type (a float).          *)
(***************************************************************************)
Missing == [t |-> "missing", v |-> 0]
None == [t |-> "none", v |-> 0]
Flt == [t |-> "float", v |-> 0]
Int_(n) == [t |-> "int", v |-> n]

\* isinstance(val, int)
IsInt(x) == x.t = "int"

VARIABLES
    \* ---- the calling thread inside start_server and on the handle
    pc,         \* position of the calling thread
    call,       \* keyword arguments of the start_server call
    environ,    \* os.environ: [path, vars]
    binpath,    \* shutil.which("llama-server") as _build_args saw it
    err,        \* exception pending or raised to the caller
    tail,       \* output carried by the ServerLaunchError
    elapsed,    \* time.time() - start, in ticks
    handle,     \* the ServerHandle returned: [port, log_thread] or NoHandle
    \* ---- the child process and its surroundings
    child,      \* "none" | "alive" | "zombie" (exited, not reaped) | "reaped"
    health,     \* what GET /health answers: 0 (no listener), 503, 200
    pipe,       \* lines written by the child and not read yet
    written,    \* number of lines the child has written
    outOpen,    \* the write end of the child's output is open
    \* ---- the log-relay worker
    logThread,  \* "none" | "running" | "done"
    relayed,    \* lines printed by _stream_logs
    \* ---- handle operations
    ret,        \* where terminate() returns to
    ops,        \* handle operations invoked so far
    sigLog,     \* os.killpg calls of the current (or last) operation
    scope,      \* the with-block: [entered, bodyErr, left, propagated]
    \* ---- history of the run, read by the properties only
    hist,
    \* ---- get_response
    cpc,        \* position of the client inside the function it has called
    creq,       \* the call of the client and its progress
    \* ---- the file system multiple_choice_grammar writes to
    fs          \* [dirs, files]: directories, and the content of each file

svars == <<pc, call, environ, binpath, err, tail, elapsed, handle, child, health,
           pipe, written, outOpen, logThread, relayed, ret, ops, sigLog, scope, hist>>
cvars == <<cpc, creq, fs>>
vars == <<svars, cvars>>


(***************************************************************************)
(* The start_server call: keyword arguments.                               *)
(* host, cors, log_colors, verbose and api_key are passed through to the   *)
(* command line without any check and are left out.                        *)
(***************************************************************************)
\* The plain valid call: required options given, every optional one defaulted.
Baseline ==
    [model_path |-> "model.gguf", n_ctx |-> Int_(4096), n_gpu_layers |-> Int_(99),
     port |-> Missing, threads |-> None, http_threads |-> None, slots |-> None,
     extra_args |-> "none", env |-> "none", ensure_homebrew_path |-> TRUE,
     stream_logs |-> TRUE, log_disable |-> FALSE,
     health_timeout |-> MaxHealthTimeout]

\* Values an option may take instead of its Baseline value.
FieldValues ==
    ({"model_path"} \X {"", "nofile.gguf"})
    \cup ({"n_ctx"} \X {Missing, Int_(0), Flt})
    \cup ({"n_gpu_layers"} \X {Missing, Int_(-1)})
    \cup ({"port"} \X {Int_(0), Int_(MaxPort), Int_(MaxPort + 1)})
    \cup ({"threads", "http_threads", "slots"} \X {Int_(0), Int_(4)})
    \cup ({"extra_args"} \X {"list", "str", "badelem"})
    \cup ({"env"} \X {"dict", "notdict", "badkeys"})
    \cup ({"ensure_homebrew_path", "stream_logs"} \X {FALSE})
    \cup ({"log_disable"} \X {TRUE})
    \cup ({"health_timeout"} \X (0 .. MaxHealthTimeout))

RECURSIVE Deviating(_)
Deviating(k) ==
    IF k = 0 THEN {Baseline}
    ELSE LET prev == Deviating(k - 1)
         IN  prev \cup {[c EXCEPT ![fv[1]] = fv[2]] : c \in prev, fv \in FieldValues}

Calls == Deviating(MaxDeviations)

\* os.path.exists(model_path)
PathExists(p) == p = "model.gguf"

\* os.uname().sysname
Sysnames == {"Linux", "Darwin"}
\* Directory that holds the llama-server binary ("" when it is not installed).
InstallDirs == {"", "/usr/bin", "/opt/homebrew/bin"}

InitEnviron == [path |-> <<"/usr/bin">>, vars |-> {}]

NoErr == [kind |-> "none", site |-> "none"]
Raise(kind, site) == [kind |-> kind, site |-> site]

(***************************************************************************)
(* start_server, lines 115-135: binding of the keyword arguments.  n_ctx,  *)
(* n_gpu_layers and model_path have no default; port defaults to 8080.     *)
(***************************************************************************)
BindError(c) ==
    IF c.n_ctx = Missing \/ c.n_gpu_layers = Missing
    THEN Raise("TypeError", "bind") ELSE NoErr

Bind(c) == IF c.port = Missing THEN [c EXCEPT !.port = Int_(DefaultPort)] ELSE c

(***************************************************************************)
(* start_server, lines 141-163: validation.  The first failing check       *)
(* raises.                                                                 *)
(***************************************************************************)
\* not isinstance(val, (int,)) or val <= 0
NotPositiveInt(x) == ~IsInt(x) \/ x.v <= 0

\* opt_val is not None and (not isinstance(opt_val, int) or opt_val <= 0)
BadOptional(x) == x # None /\ NotPositiveInt(x)

\* A validation that misses the upper limit of the port.
ValidateNoPortRange(c) ==
    IF c.model_path = "" THEN Raise("ValueError", "validate")
    ELSE IF ~PathExists(c.model_path) THEN Raise("FileNotFoundError", "validate")
    ELSE IF NotPositiveInt(c.n_ctx) \/ NotPositiveInt(c.n_gpu_layers)
            \/ NotPositiveInt(c.port) THEN Raise("ValueError", "validate")
    ELSE IF BadOptional(c.threads) \/ BadOptional(c.http_threads)
            \/ BadOptional(c.slots) THEN Raise("ValueError", "validate")
    ELSE IF c.extra_args \in {"str", "badelem"} THEN Raise("TypeError", "validate")
    ELSE IF c.env \in {"notdict", "badkeys"} THEN Raise("TypeError", "validate")
    ELSE NoErr

Validate(c) ==
    IF c.model_path = "" THEN Raise("ValueError", "validate")
    ELSE IF ~PathExists(c.model_path) THEN Raise("FileNotFoundError", "validate")
    ELSE IF NotPositiveInt(c.n_ctx) \/ NotPositiveInt(c.n_gpu_layers)
            \/ NotPositiveInt(c.port) THEN Raise("ValueError", "validate")
    ELSE IF c.port.v > MaxPort THEN Raise("ValueError", "validate")
    ELSE IF BadOptional(c.threads) \/ BadOptional(c.http_threads)
            \/ BadOptional(c.slots) THEN Raise("ValueError", "validate")
    ELSE IF c.extra_args \in {"str", "badelem"} THEN Raise("TypeError", "validate")
    ELSE IF c.env \in {"notdict", "badkeys"} THEN Raise("TypeError", "validate")
    ELSE NoErr

(***************************************************************************)
(* start_server, lines 164-168: the search-path prefix and the env         *)
(* argument are written to os.environ.                                     *)
(***************************************************************************)
SetEnviron(e, c, sysname) ==
    LET e1 == IF c.ensure_homebrew_path /\ sysname = "Darwin"
              THEN [e EXCEPT !.path = <<"/opt/homebrew/bin">> \o e.path] ELSE e
    IN  IF c.env = "dict" THEN [e1 EXCEPT !.vars = e1.vars \cup {"LLAMA_ENV"}] ELSE e1

\* shutil.which("llama-server"): "" stands for None.
Which(path, installed) ==
    IF installed # "" /\ \E i \in 1 .. Len(path) : path[i] = installed
    THEN installed ELSE ""

(***************************************************************************)
(* _build_args, lines 67-87.                                               *)
(***************************************************************************)
Flag(name, x) == IF x = None THEN <<>> ELSE <<name, x.v>>

build_args(c, bin) ==
    IF bin = "" THEN [err |-> Raise("FileNotFoundError", "build_args"), args |-> <<>>]
    ELSE [err |-> NoErr,
          args |-> <<bin, "-m", c.model_path, "-c", c.n_ctx.v, "-ngl", c.n_gpu_layers.v,
                     "--port", c.port.v>>
                   \o Flag("-t", c.threads) \o Flag("--threads-http", c.http_threads)
                   \o Flag("--slots", c.slots)
                   \o (IF c.log_disable THEN <<"--log-disable">> ELSE <<>>)
                   \o (IF c.extra_args = "list" THEN <<"extra">> ELSE <<>>)]


(***************************************************************************)
(* Popen.poll(): a child that has exited is reaped and its return code     *)
(* kept; the result is None exactly while the child runs.                  *)
(***************************************************************************)
Reap(ch) == IF ch = "zombie" THEN "reaped" ELSE ch

\* ServerHandle.is_alive, lines 22-23: self.process.poll() is None
is_alive(ch) == Reap(ch) = "alive"

NoHandle == [port |-> 0, log_thread |-> "none", valid |-> FALSE]

InitHist ==
    [requested |-> FALSE,       \* a health request has been made
     okPoll |-> FALSE,          \* a health request met an endpoint answering 200
     observedExit |-> FALSE,    \* _wait_health saw poll() return an exit code
     exitedBeforeOK |-> FALSE,  \* the child exited while _wait_health was polling
     readyInTime |-> FALSE,     \* the endpoint became ready before the timeout elapsed
     termReturned |-> FALSE,    \* a terminate() call has returned
     leftover |-> <<>>,         \* output printed by the failure handler
     opErr |-> "none",          \* error raised by a handle operation
     port |-> 0,                \* the port the call asked for
     wait |-> "none"]           \* how wait(timeout) of the last terminate() ended

NoCall == [kind |-> "none"]

\* A file system with no directory and no file.
EmptyFs == [dirs |-> {}, files |-> {}]

\* No start_server call has been made.
ServerInit ==
    /\ pc = "idle"
    /\ call = NoCall
    /\ environ = InitEnviron
    /\ binpath = "unset"
    /\ err = NoErr
    /\ tail = <<>>
    /\ elapsed = 0
    /\ handle = NoHandle
    /\ child = "none"
    /\ health = 0
    /\ pipe = <<>>
    /\ written = 0
    /\ outOpen = FALSE
    /\ logThread = "none"
    /\ relayed = <<>>
    /\ ret = "none"
    /\ ops = 0
    /\ sigLog = <<>>
    /\ scope = [entered |-> FALSE, bodyErr |-> "none", left |-> FALSE,
                propagated |-> "none"]
    /\ hist = InitHist

Init ==
    /\ ServerInit
    /\ cpc = "idle"
    /\ creq = NoCall
    /\ fs = EmptyFs

(***************************************************************************)
(* The caller invokes start_server with keyword arguments c.              *)
(***************************************************************************)
Call(c) ==
    /\ pc = "idle"
    /\ pc' = "called"
    /\ call' = c
    /\ UNCHANGED <<environ, binpath, err, tail, elapsed, handle, child, health, pipe,
                   written, outOpen, logThread, relayed, ret, ops, sigLog, scope, hist>>
    /\ UNCHANGED cvars

\* The arguments start_server still reads after Popen (lines 194, 208, 211).
Live(c) ==
    [port |-> c.port.v, stream_logs |-> c.stream_logs, log_disable |-> c.log_disable,
     health_timeout |-> c.health_timeout]

(***************************************************************************)
(* start_server, lines 141-192: argument binding, validation, the writes   *)
(* to os.environ, _build_args and Popen.  The outcome is the first error   *)
(* met, or the spawned child.                                              *)
(***************************************************************************)
Prefix(c0, e, sysname, installed) ==
    LET c == Bind(c0)
        be == BindError(c0)
        ve == Validate(c)
        e2 == SetEnviron(e, c, sysname)
        bin == Which(e2.path, installed)
        ba == build_args(c, bin)
    IN  IF be # NoErr THEN [err |-> be, environ |-> e, binpath |-> "unset", spawn |-> FALSE]
        ELSE IF ve # NoErr
             THEN [err |-> ve, environ |-> e, binpath |-> "unset", spawn |-> FALSE]
        ELSE IF ba.err # NoErr
             THEN [err |-> ba.err, environ |-> e2, binpath |-> bin, spawn |-> FALSE]
        ELSE [err |-> NoErr, environ |-> e2, binpath |-> bin, spawn |-> TRUE]

Launch(sysname, installed) ==
    /\ pc = "called"
    /\ LET r == Prefix(call, environ, sysname, installed)
       IN  /\ environ' = r.environ
           /\ binpath' = r.binpath
           /\ err' = r.err
           /\ hist' = IF r.spawn THEN [hist EXCEPT !.port = Bind(call).port.v] ELSE hist
           /\ IF r.spawn
              THEN /\ pc' = "wh_check"
                   /\ call' = Live(Bind(call))
                   /\ child' = "alive"
                   /\ outOpen' = TRUE
              ELSE /\ pc' = "raised"
                   /\ UNCHANGED <<call, child, outOpen>>
    /\ UNCHANGED <<tail, elapsed, handle, health, pipe, written, logThread, relayed,
                   ret, ops, sigLog, scope>>
    /\ UNCHANGED cvars


(***************************************************************************)
(* os.killpg(pid, sig): the signal reaches the process group, or the call  *)
(* raises (ProcessLookupError, PermissionError).  late: an earlier         *)
(* terminate() on the handle had returned when the call was made.          *)
(***************************************************************************)
Signal(sig, by, ok) ==
    [sig |-> sig, to |-> "group", by |-> by, ok |-> ok, late |-> hist.termReturned]

(***************************************************************************)
(* _wait_health, lines 92-99: the loop test and the child-exit check.      *)
(***************************************************************************)
\* while time.time() - start < timeout
LoopContinues(el, timeout) == el < timeout

\* A loop that never looks at the child.
ChildExited_Never(ch) == FALSE

\* if proc.poll() is not None
ChildExited(ch) == Reap(ch) # "alive"

WaitHealthCheck ==
    /\ pc = "wh_check"
    /\ IF LoopContinues(elapsed, call.health_timeout)
       THEN /\ child' = Reap(child)
            /\ IF ChildExited(child)
               THEN /\ pc' = "wh_exited"
                    /\ hist' = [hist EXCEPT !.observedExit = TRUE]
               ELSE /\ pc' = "wh_request"
                    /\ hist' = hist
            /\ err' = err
       ELSE /\ pc' = "cleanup"
            /\ err' = Raise("TimeoutError", "wait_health")
            /\ UNCHANGED <<child, hist>>
    /\ UNCHANGED <<call, environ, binpath, tail, elapsed, handle, health, pipe, written,
                   outOpen, logThread, relayed, ret, ops, sigLog, scope>>
    /\ UNCHANGED cvars

\* readlines()[-200:]
LastLines(lines, n) ==
    IF Len(lines) <= n THEN lines ELSE SubSeq(lines, Len(lines) - n + 1, Len(lines))

(***************************************************************************)
(* _wait_health, lines 94-99: the child has exited.  readlines() returns   *)
(* at end of file, that is once every write end of the pipe is closed.     *)
(***************************************************************************)
ReadTail ==
    /\ pc = "wh_exited"
    /\ ~outOpen
    /\ tail' = LastLines(pipe, TailLines)
    /\ pipe' = <<>>
    /\ err' = Raise("ServerLaunchError", "wait_health")
    /\ pc' = "cleanup"
    /\ UNCHANGED <<call, environ, binpath, elapsed, handle, child, health, written,
                   outOpen, logThread, relayed, ret, ops, sigLog, scope, hist>>
    /\ UNCHANGED cvars

\* A launcher that takes any answer of the endpoint for readiness.
HealthOK_AnyAnswer(status) == status # 0

\* if r.status == 200: return
HealthOK(status) == status = 200

\* A launcher that starts the worker whenever stream_logs is true.
StartsLogThread_IgnoresDisable(c) == c.stream_logs

(***************************************************************************)
(* start_server, lines 207-211: the log-relay worker and the handle.       *)
(***************************************************************************)
StartsLogThread(c) == c.stream_logs /\ ~c.log_disable

ServerHandle(c) ==
    [port |-> c.port, log_thread |-> IF StartsLogThread(c) THEN "thread" ELSE "none",
     valid |-> TRUE]

(***************************************************************************)
(* _wait_health, lines 100-105: one health request.  A 200 makes           *)
(* _wait_health return and start_server build the handle (lines 207-211);  *)
(* the caller either keeps the handle or enters a with-block on it.  Any   *)
(* other answer, or none within the urlopen timeout, is swallowed.         *)
(***************************************************************************)
HealthRequest(d, useWith) ==
    /\ pc = "wh_request"
    /\ hist' = [hist EXCEPT !.requested = TRUE,
                            !.okPoll = @ \/ health = 200]
    /\ IF HealthOK(health)
       THEN /\ d = 0
            /\ handle' = ServerHandle(call)
            /\ logThread' = IF StartsLogThread(call) THEN "running" ELSE "none"
            /\ pc' = IF useWith THEN "body" ELSE "ready"
            /\ scope' = [scope EXCEPT !.entered = useWith]
            /\ call' = NoCall
            /\ elapsed' = 0
       ELSE /\ ~useWith
            /\ (health = 0 => d = 0)
            /\ elapsed' = elapsed + d
            /\ pc' = "wh_sleep"
            /\ UNCHANGED <<call, handle, logThread, scope>>
    /\ UNCHANGED <<environ, binpath, err, tail, child, health, pipe, written,
                   outOpen, relayed, ret, ops, sigLog>>
    /\ UNCHANGED cvars

\* _wait_health, line 106: time.sleep(0.25)
Sleep ==
    /\ pc = "wh_sleep"
    /\ elapsed' = elapsed + SleepTicks
    /\ pc' = "wh_check"
    /\ UNCHANGED <<call, environ, binpath, err, tail, handle, child, health, pipe,
                   written, outOpen, logThread, relayed, ret, ops, sigLog, scope, hist>>
    /\ UNCHANGED cvars

(***************************************************************************)
(* start_server, lines 195-206: the handler of a failed health wait.       *)
(* proc.stdout.read() returns at end of file only; then SIGTERM goes to    *)
(* the process group (an error of killpg is swallowed) and the exception   *)
(* is raised again.                                                        *)
(***************************************************************************)
Cleanup(ok) ==
    /\ pc = "cleanup"
    /\ ~outOpen
    /\ hist' = [hist EXCEPT !.leftover = pipe]
    /\ pipe' = <<>>
    /\ sigLog' = Append(sigLog, Signal("SIGTERM", "start_server", ok))
    /\ pc' = "raised"
    /\ UNCHANGED <<call, environ, binpath, err, tail, elapsed, handle, child, health,
                   written, outOpen, logThread, relayed, ret, ops, scope>>
    /\ UNCHANGED cvars

(***************************************************************************)
(* The child process and the server it runs.                               *)
(***************************************************************************)
\* The child exits, by itself or after a signal; a grandchild may keep the
\* write end of the pipe open.
ChildExit(closes) ==
    /\ child = "alive"
    /\ child' = "zombie"
    /\ health' = 0
    /\ outOpen' = (outOpen /\ ~closes)
    /\ hist' = [hist EXCEPT !.exitedBeforeOK =
                   @ \/ (pc \in {"wh_check", "wh_request", "wh_sleep"})]
    /\ UNCHANGED <<pc, call, environ, binpath, err, tail, elapsed, handle, pipe, written,
                   logThread, relayed, ret, ops, sigLog, scope>>
    /\ UNCHANGED cvars

\* The last write end of the child's output is closed.
CloseOutput ==
    /\ child # "none"
    /\ outOpen
    /\ outOpen' = FALSE
    /\ UNCHANGED <<pc, call, environ, binpath, err, tail, elapsed, handle, child, health,
                   pipe, written, logThread, relayed, ret, ops, sigLog, scope, hist>>
    /\ UNCHANGED cvars

\* The child writes a line to its output.
ChildWrite ==
    /\ child = "alive"
    /\ outOpen
    /\ written < MaxLines
    /\ written' = written + 1
    /\ pipe' = Append(pipe, written + 1)
    /\ UNCHANGED <<pc, call, environ, binpath, err, tail, elapsed, handle, child, health,
                   outOpen, logThread, relayed, ret, ops, sigLog, scope, hist>>
    /\ UNCHANGED cvars

\* The server starts to listen (503 while the model loads), then is ready (200).
HealthProgress ==
    /\ child = "alive"
    /\ health # 200
    /\ health' = IF health = 0 THEN 503 ELSE 200
    /\ hist' = IF health = 503 /\ pc \in {"wh_check", "wh_request", "wh_sleep"}
                  /\ elapsed < call.health_timeout
               THEN [hist EXCEPT !.readyInTime = TRUE] ELSE hist
    /\ UNCHANGED <<pc, call, environ, binpath, err, tail, elapsed, handle, child, pipe,
                   written, outOpen, logThread, relayed, ret, ops, sigLog, scope>>
    /\ UNCHANGED cvars


(***************************************************************************)
(* _stream_logs, lines 109-113: the log-relay worker prints one line per   *)
(* readline() and ends when readline() returns '' at end of file.          *)
(***************************************************************************)
LogRelay ==
    /\ logThread = "running"
    /\ pipe # <<>>
    /\ relayed' = Append(relayed, Head(pipe))
    /\ pipe' = Tail(pipe)
    /\ UNCHANGED <<pc, call, environ, binpath, err, tail, elapsed, handle, child, health,
                   written, outOpen, logThread, ret, ops, sigLog, scope, hist>>
    /\ UNCHANGED cvars

\* A readline() that returns '' whenever nothing is there to read.
EndOfFile_NothingToRead(p, open) == p = <<>>

\* readline() returns '': nothing is left to read and no write end is open.
EndOfFile(p, open) == p = <<>> /\ ~open

LogEOF ==
    /\ logThread = "running"
    /\ EndOfFile(pipe, outOpen)
    /\ logThread' = "done"
    /\ UNCHANGED <<pc, call, environ, binpath, err, tail, elapsed, handle, child, health,
                   pipe, written, outOpen, relayed, ret, ops, sigLog, scope, hist>>
    /\ UNCHANGED cvars

(***************************************************************************)
(* ServerHandle: the operations of the handle.  The caller holds the       *)
(* handle at "ready" (plain use) or "body" (inside a with-block).          *)
(***************************************************************************)
Holding == pc \in {"ready", "body"}

\* ServerHandle.is_alive(), lines 22-23, called by the caller.
IsAliveCall ==
    /\ Holding
    /\ ops < MaxOps
    /\ ops' = ops + 1
    /\ child' = Reap(child)
    /\ sigLog' = <<>>
    /\ UNCHANGED <<pc, call, environ, binpath, err, tail, elapsed, handle, health, pipe,
                   written, outOpen, logThread, relayed, ret, scope, hist>>
    /\ UNCHANGED cvars

\* A wait that drains the output of the child, as communicate() does.
AfterWait_Communicate(p) == <<>>

\* Popen.wait(), lines 30 and 42: what it leaves in the child's output, of
\* which it reads nothing.
AfterWait(p) == p

\* ServerHandle.wait(), lines 41-42: blocks until the child has exited.
WaitCall ==
    /\ Holding
    /\ ops < MaxOps
    /\ child \in {"zombie", "reaped"}
    /\ ops' = ops + 1
    /\ child' = Reap(child)
    /\ pipe' = AfterWait(pipe)
    /\ sigLog' = <<>>
    /\ UNCHANGED <<pc, call, environ, binpath, err, tail, elapsed, handle, health,
                   written, outOpen, logThread, relayed, ret, scope, hist>>
    /\ UNCHANGED cvars

\* A kill() that signals without looking at the child.
KillSignals_Always(ch) == TRUE

\* kill(), line 35: if self.is_alive()
KillSignals(ch) == is_alive(ch)

\* A kill() that lets the error of killpg through.
KillError_Raises(ok) == IF ok THEN "none" ELSE "ProcessLookupError"

\* kill(), lines 38-39: except Exception: pass
KillError(ok) == "none"

\* terminate(), line 26: if not self.is_alive(): return
TerminateSignals(ch) == is_alive(ch)

\* A terminate() that kills at once.
FirstSignal_Kill == "SIGKILL"

\* terminate(), line 29: os.killpg(self.process.pid, signal.SIGTERM)
FirstSignal == "SIGTERM"

\* __exit__, lines 47-48, returns None: an error of the body is not suppressed.
ExitSuppresses == FALSE

\* terminate() returns to where it was called from; from __exit__ the
\* with-block is left and the error of the body, if any, propagates.
Return(to) ==
    /\ pc' = to
    /\ ret' = "none"
    /\ hist' = [hist EXCEPT !.termReturned = TRUE,
                            !.wait = IF pc = "t_wait" THEN "exited" ELSE "none"]
    /\ scope' = IF to = "left"
                THEN [scope EXCEPT !.left = TRUE,
                                   !.propagated = IF ExitSuppresses THEN "none"
                                                  ELSE scope.bodyErr]
                ELSE scope

(***************************************************************************)
(* terminate(), lines 25-30: entry.  Nothing is done for a child that has  *)
(* exited; otherwise SIGTERM goes to the process group and the caller      *)
(* waits, or the handler of line 31 runs if killpg raised.                 *)
(***************************************************************************)
TerminateEnter(to, ok) ==
    /\ child' = Reap(child)
    /\ IF ~TerminateSignals(child)
       THEN /\ ok
            /\ Return(to)
            /\ sigLog' = <<>>
       ELSE /\ sigLog' = <<Signal(FirstSignal, "terminate", ok)>>
            /\ pc' = IF ok THEN "t_wait" ELSE "t_kill"
            /\ ret' = to
            /\ hist' = [hist EXCEPT !.wait = "none"]
            /\ UNCHANGED scope

\* The caller calls handle.terminate().
TerminateCall(ok) ==
    /\ Holding
    /\ ops < MaxOps
    /\ ops' = ops + 1
    /\ TerminateEnter(pc, ok)
    /\ UNCHANGED <<call, environ, binpath, err, tail, elapsed, handle, health, pipe,
                   written, outOpen, logThread, relayed>>
    /\ UNCHANGED cvars

\* The body of the with-block ends, normally or with an error e.
BodyEnd(e) ==
    /\ pc = "body"
    /\ pc' = "exit"
    /\ scope' = [scope EXCEPT !.bodyErr = e]
    /\ UNCHANGED <<call, environ, binpath, err, tail, elapsed, handle, child, health,
                   pipe, written, outOpen, logThread, relayed, ret, ops, sigLog, hist>>
    /\ UNCHANGED cvars

\* __exit__, lines 47-48: self.terminate()
ExitCall(ok) ==
    /\ pc = "exit"
    /\ TerminateEnter("left", ok)
    /\ UNCHANGED <<call, environ, binpath, err, tail, elapsed, handle, health, pipe,
                   written, outOpen, logThread, relayed, ops>>
    /\ UNCHANGED cvars

(***************************************************************************)
(* terminate(), line 30: self.process.wait(timeout=timeout) returns once   *)
(* the child has exited, or raises TimeoutExpired while it still runs.     *)
(***************************************************************************)
WaitDone ==
    /\ pc = "t_wait"
    /\ child \in {"zombie", "reaped"}
    /\ child' = Reap(child)
    /\ pipe' = AfterWait(pipe)
    /\ Return(ret)
    /\ UNCHANGED <<call, environ, binpath, err, tail, elapsed, handle, health,
                   written, outOpen, logThread, relayed, ops, sigLog>>
    /\ UNCHANGED cvars

WaitTimeout ==
    /\ pc = "t_wait"
    /\ child = "alive"
    /\ pc' = "t_kill"
    /\ hist' = [hist EXCEPT !.wait = "timeout"]
    /\ UNCHANGED <<call, environ, binpath, err, tail, elapsed, handle, child, health,
                   pipe, written, outOpen, logThread, relayed, ret, ops, sigLog, scope>>
    /\ UNCHANGED cvars

(***************************************************************************)
(* kill(), lines 34-39: SIGKILL to the process group of a child that runs; *)
(* an error of killpg is swallowed.  kill() does not wait for the child.   *)
(***************************************************************************)
Kill(log, ok) ==
    /\ child' = Reap(child)
    /\ IF KillSignals(child)
       THEN sigLog' = Append(log, Signal("SIGKILL", "kill", ok))
       ELSE ok /\ sigLog' = log

\* terminate(), lines 31-32: except Exception: self.kill()
TerminateKill(ok) ==
    /\ pc = "t_kill"
    /\ Kill(sigLog, ok)
    /\ pc' = ret
    /\ ret' = "none"
    /\ hist' = [hist EXCEPT !.termReturned = TRUE,
                            !.opErr = IF KillSignals(child) THEN KillError(ok) ELSE @]
    /\ scope' = IF ret = "left"
                THEN [scope EXCEPT !.left = TRUE,
                                   !.propagated = IF ExitSuppresses THEN "none"
                                                  ELSE scope.bodyErr]
                ELSE scope
    /\ UNCHANGED <<call, environ, binpath, err, tail, elapsed, handle, health, pipe,
                   written, outOpen, logThread, relayed, ops>>
    /\ UNCHANGED cvars

\* The caller calls handle.kill().
KillCall(ok) ==
    /\ Holding
    /\ ops < MaxOps
    /\ ops' = ops + 1
    /\ Kill(<<>>, ok)
    /\ hist' = [hist EXCEPT !.opErr = IF KillSignals(child) THEN KillError(ok) ELSE @]
    /\ UNCHANGED <<pc, call, environ, binpath, err, tail, elapsed, handle, health, pipe,
                   written, outOpen, logThread, relayed, ret, scope>>
    /\ UNCHANGED cvars

(***************************************************************************)
(* The launcher: the calling thread, the log-relay worker, the child.      *)
(***************************************************************************)
\* The caller calls start_server once, with some keyword arguments.
StartServer == pc = "idle" /\ \E c \in Calls : Call(c)

CallerStep ==
    \/ StartServer
    \/ \E sysname \in Sysnames, installed \in InstallDirs : Launch(sysname, installed)
    \/ WaitHealthCheck
    \/ ReadTail
    \/ \E d \in 0 .. UrlTimeoutTicks, useWith \in BOOLEAN : HealthRequest(d, useWith)
    \/ Sleep
    \/ \E ok \in BOOLEAN : Cleanup(ok)
    \/ IsAliveCall
    \/ WaitCall
    \/ \E ok \in BOOLEAN : TerminateCall(ok)
    \/ \E e \in {"none", "BodyError"} : BodyEnd(e)
    \/ \E ok \in BOOLEAN : ExitCall(ok)
    \/ WaitDone
    \/ WaitTimeout
    \/ \E ok \in BOOLEAN : TerminateKill(ok)
    \/ \E ok \in BOOLEAN : KillCall(ok)

WorkerStep == LogRelay \/ LogEOF

ChildStep ==
    \/ \E closes \in BOOLEAN : ChildExit(closes)
    \/ CloseOutput
    \/ ChildWrite
    \/ HealthProgress

Next == CallerStep \/ WorkerStep \/ ChildStep

Spec == Init /\ [][Next]_vars


(***************************************************************************)
(* get_response, client.py lines 40-102.                                   *)
(*                                                                         *)
(* An answer of the server to chat.completions.create:                     *)
(*   ok       a completion whose message content is a text                 *)
(*   ok_none  a completion whose message content is None                   *)
(*   loading  InternalServerError whose text holds 'Loading model'         *)
(*   ise      any other InternalServerError                                *)
(*   bad      BadRequestError (400)                                        *)
(*   other    any other exception (connection refused, other status)       *)
(* A text is a sequence of characters.                                     *)
(***************************************************************************)
Whitespace == {" ", "\n", "\t"}
Texts == {<<"a">>, <<" ", "a", "\n">>}

\* The text of a 400 response ('' when the error carries no response).
Bodies == {<<>>, <<"e">>}

Answers ==
    {[kind |-> "ok", content |-> t] : t \in Texts}
    \cup {[kind |-> k, content |-> <<>>] : k \in {"ok_none", "loading", "ise", "other"}}
    \cup {[kind |-> "bad", content |-> b] : b \in Bodies}

\* str.strip(): leading and trailing whitespace removed.
RECURSIVE LStrip(_)
LStrip(t) == IF t # <<>> /\ Head(t) \in Whitespace THEN LStrip(Tail(t)) ELSE t

RECURSIVE RStrip(_)
RStrip(t) ==
    IF t # <<>> /\ t[Len(t)] \in Whitespace THEN RStrip(SubSeq(t, 1, Len(t) - 1)) ELSE t

Strip(t) == RStrip(LStrip(t))

\* A loop that makes one attempt too many.
LoopAttempts_OneMore(retries) == retries + 1

\* A loop that makes one attempt too few.
LoopAttempts_OneLess(retries) == retries - 1

\* for attempt in range(1, retries + 1): the number of attempts.
LoopAttempts(retries) == retries

\* if 'Loading model' in str(e)
IsLoading(ans) == ans.kind = "loading"

\* The answer of the server to the k-th request.
ScriptAnswer(script, k) == script[IF k <= Len(script) THEN k ELSE Len(script)]

\* An except clause that treats a 400 like any unexpected failure.
Handling_Retries400(ans) ==
    CASE ans.kind = "ok" -> "return"
      [] ans.kind \in {"loading", "ise"} ->
             IF IsLoading(ans) THEN "retry" ELSE "reraise"
      [] OTHER -> "retry"

(***************************************************************************)
(* get_response, lines 83-100: what the answer to a request leads to.      *)
(*   return    line 85, the stripped text of the completion                *)
(*   retry     lines 89-91 and 98-100: last_err, sleep, continue           *)
(*   reraise   line 92, the InternalServerError itself                     *)
(*   raise400  line 96, RuntimeError with the text of the response         *)
(* A content of None makes line 85 raise AttributeError inside the try,    *)
(* which line 97 catches.                                                  *)
(***************************************************************************)
Handling(ans) ==
    CASE ans.kind = "ok" -> "return"
      [] ans.kind = "ok_none" -> "retry"
      [] ans.kind \in {"loading", "ise"} ->
             IF IsLoading(ans) THEN "retry" ELSE "reraise"
      [] ans.kind = "bad" -> "raise400"
      [] OTHER -> "retry"

\* The caller calls get_response(prompt, retries=r); script holds the answers
\* the server gives to the requests to come.
GetResponse(r, script) ==
    /\ cpc = "idle"
    /\ cpc' = "attempt"
    /\ creq' = [retries |-> r, script |-> script, attempt |-> 1, requests |-> 0,
                sleeps |-> 0, last_err |-> "None", result |-> <<>>, error |-> "none",
                msg |-> "none", body |-> <<>>]
    /\ UNCHANGED <<svars, fs>>

(***************************************************************************)
(* get_response, lines 82-100: one pass of the retry loop.                 *)
(***************************************************************************)
Attempt ==
    /\ cpc = "attempt"
    /\ creq.attempt <= LoopAttempts(creq.retries)
    /\ LET ans == ScriptAnswer(creq.script, creq.attempt)
           sent == [creq EXCEPT !.requests = @ + 1]
       IN  CASE Handling(ans) = "return" ->
                   /\ cpc' = "returned"
                   /\ creq' = [sent EXCEPT !.result = Strip(ans.content)]
             [] Handling(ans) = "retry" ->
                   /\ cpc' = "attempt"
                   /\ creq' = [sent EXCEPT !.attempt = @ + 1, !.sleeps = @ + 1,
                                           !.last_err = ans.kind]
             [] Handling(ans) = "reraise" ->
                   /\ cpc' = "raised"
                   /\ creq' = [sent EXCEPT !.error = "InternalServerError"]
             [] Handling(ans) = "raise400" ->
                   /\ cpc' = "raised"
                   /\ creq' = [sent EXCEPT !.error = "RuntimeError",
                                           !.msg = "400 Bad Request from server",
                                           !.body = ans.content]
    /\ UNCHANGED <<svars, fs>>

\* get_response, line 102: the loop is over; the message names last_err.
Exhausted ==
    /\ cpc = "attempt"
    /\ creq.attempt > LoopAttempts(creq.retries)
    /\ cpc' = "raised"
    /\ creq' = [creq EXCEPT !.error = "RuntimeError", !.msg = "Failed after attempts"]
    /\ UNCHANGED <<svars, fs>>

(***************************************************************************)
(* wait_model_ready, client.py lines 22-37.  Time is counted in ticks from *)
(* start = time.time() of line 29.                                         *)
(***************************************************************************)
WaitModelReady(timeout, interval) ==
    /\ cpc = "idle"
    /\ cpc' = "w_poll"
    /\ creq' = [timeout |-> timeout, interval |-> interval, elapsed |-> 0,
                polled |-> FALSE, succeeded |-> FALSE, error |-> "none"]
    /\ UNCHANGED <<svars, fs>>

\* A wait that gives up at the first failed poll.
ReadyTimedOut_FirstFailure(el, timeout) == TRUE

\* line 35: if time.time() - start > timeout
ReadyTimedOut(el, timeout) == el > timeout

\* lines 31-36: client.models.list() takes d ticks and succeeds or raises;
\* after a failure the clock is read.
Poll(d, ok) ==
    /\ cpc = "w_poll"
    /\ LET now == creq.elapsed + d
           done == [creq EXCEPT !.polled = TRUE, !.elapsed = now]
       IN  IF ok
           THEN /\ cpc' = "w_returned"
                /\ creq' = [done EXCEPT !.succeeded = TRUE]
           ELSE IF ReadyTimedOut(now, creq.timeout)
                THEN /\ cpc' = "w_raised"
                     /\ creq' = [done EXCEPT !.error = "TimeoutError"]
                ELSE /\ cpc' = "w_sleep"
                     /\ creq' = done
    /\ UNCHANGED <<svars, fs>>

\* line 37: time.sleep(interval)
ReadySleep ==
    /\ cpc = "w_sleep"
    /\ cpc' = "w_poll"
    /\ creq' = [creq EXCEPT !.elapsed = @ + creq.interval]
    /\ UNCHANGED <<svars, fs>>

\* The caller calls get_response with some retries, against some server.
GetResponseCall ==
    /\ cpc = "idle"
    /\ \E r \in 0 .. MaxRetries, script \in [1 .. MaxScript -> Answers] :
           GetResponse(r, script)

ClientNext ==
    \/ GetResponseCall
    \/ Attempt
    \/ Exhausted
    \/ \E timeout \in 0 .. MaxReadyTimeout, interval \in 1 .. MaxInterval :
           WaitModelReady(timeout, interval)
    \/ \E d \in 0 .. MaxPollTicks, ok \in BOOLEAN : Poll(d, ok)
    \/ ReadySleep

ClientSpec == Init /\ [][ClientNext]_vars

\* The client is one thread: a call that can go on does go on.
ClientStep ==
    \/ Attempt
    \/ Exhausted
    \/ \E d \in 0 .. MaxPollTicks, ok \in BOOLEAN : Poll(d, ok)
    \/ ReadySleep

FairClientSpec == ClientSpec /\ WF_vars(ClientStep)

(***************************************************************************)
(* multiple_choice_grammar, client.py lines 128-169.  A string is a        *)
(* sequence of characters; a fixed piece of the template stands as one     *)
(* element.                                                                *)
(***************************************************************************)
Strings(chars, n) == UNION {[1 .. k -> chars] : k \in 0 .. n}

\* [A-Za-z_] and [A-Za-z0-9_]
IdentStart(ch) == ch \in {"a", "_"}
IdentChar(ch) == IdentStart(ch) \/ ch = "1"

\* [A-Za-z_][A-Za-z0-9_]* over the whole of s
IdentBody(s) ==
    /\ Len(s) >= 1
    /\ IdentStart(s[1])
    /\ \A i \in 2 .. Len(s) : IdentChar(s[i])

\* _IDENT_RE.match(name), lines 128 and 139: $ matches at the end of the
\* string and also just before a newline that ends the string.
IdentMatch(s) ==
    \/ IdentBody(s)
    \/ /\ Len(s) >= 2
       /\ s[Len(s)] = "\n"
       /\ IdentBody(SubSeq(s, 1, Len(s) - 1))

\* s.replace(ch, rep)
RECURSIVE Replace(_, _, _)
Replace(s, ch, rep) ==
    IF s = <<>> THEN <<>>
    ELSE (IF Head(s) = ch THEN rep ELSE <<Head(s)>>) \o Replace(Tail(s), ch, rep)

\* An escaping that treats the backslash last.
Esc_BackslashLast(s) ==
    Replace(Replace(Replace(Replace(s, "\"", <<"\\", "\"">>), "\n", <<"\\", "n">>),
                    "\t", <<"\\", "t">>), "\\", <<"\\", "\\">>)

\* _esc, lines 142-145: four replacements, the backslash first.
Esc(s) ==
    Replace(Replace(Replace(Replace(s, "\\", <<"\\", "\\">>), "\"", <<"\\", "\"">>),
                    "\n", <<"\\", "n">>), "\t", <<"\\", "t">>)

\* line 147: " | ".join(f'"{_esc(str(c))}"' for c in choices)
RECURSIVE Alts(_)
Alts(choices) ==
    IF choices = <<>> THEN <<>>
    ELSE <<"\"">> \o Esc(Head(choices)) \o <<"\"">>
         \o (IF Tail(choices) = <<>> THEN <<>> ELSE <<" | ">> \o Alts(Tail(choices)))

\* lines 149-164: the text of the grammar and the name of the file.
Content(choices, name, thinking) ==
    IF thinking
    THEN <<"root ::=  thinkingBlock ">> \o name
         \o <<"\n", "thinkingBlock, thinkingStart and thinkingEnd rules", "\n">>
         \o name \o <<" ::= ">> \o Alts(choices)
         \o <<"\n", "anychar ::= [^<]", "\n">>
    ELSE <<"root ::=  ">> \o name \o <<"\n">>
         \o name \o <<" ::= ">> \o Alts(choices) \o <<"\n">>

Filename(name, thinking) ==
    (IF thinking THEN <<"thinking_">> ELSE <<>>) \o name \o <<".gbnf">>

\* lines 166-168: mkdir(parents=True, exist_ok=True), then write_text, which
\* replaces the file of that name if there is one.
WriteFile(f, dir, name, content) ==
    [dirs |-> f.dirs \cup {dir},
     files |-> {x \in f.files : ~(x.dir = dir /\ x.name = name)}
               \cup {[dir |-> dir, name |-> name, content |-> content]}]

NameChars == {"a", "_", "1", "-", "\n"}
Names == Strings(NameChars, MaxNameLen)
ChoiceLists == {<<>>, <<<<"a">>>>, <<<<"a">>, <<"\"", "b">>>>}
SaveDir == "out"

\* The directory may exist, and hold a file of an earlier call.
InitialFs ==
    {EmptyFs,
     [dirs |-> {SaveDir}, files |-> {}],
     [dirs |-> {SaveDir},
      files |-> {[dir |-> SaveDir, name |-> Filename(<<"a">>, TRUE),
                  content |-> <<"old">>]}]}

GrammarInit ==
    /\ ServerInit
    /\ cpc = "idle"
    /\ creq = NoCall
    /\ fs \in InitialFs

\* The caller calls multiple_choice_grammar(choices, SaveDir, name, thinking).
MultipleChoiceGrammar(choices, name, thinking) ==
    /\ cpc = "idle"
    /\ LET in == [choices |-> choices, name |-> name, thinking |-> thinking,
                  before |-> fs, result |-> <<>>, error |-> "none"]
           content == Content(choices, name, thinking)
       IN  IF choices = <<>> \/ ~IdentMatch(name)
           THEN /\ cpc' = "g_raised"
                /\ creq' = [in EXCEPT !.error = "ValueError"]
                /\ fs' = fs
           ELSE /\ cpc' = "g_returned"
                /\ creq' = [in EXCEPT !.result = content]
                /\ fs' = WriteFile(fs, SaveDir, Filename(name, thinking), content)
    /\ UNCHANGED svars

GrammarNext ==
    \E choices \in ChoiceLists, name \in Names, thinking \in BOOLEAN :
        MultipleChoiceGrammar(choices, name, thinking)

GrammarSpec == GrammarInit /\ [][GrammarNext]_vars

(***************************************************************************)
(* _esc on its own: two choice literals are drawn and escaped.             *)
(***************************************************************************)
EscChars == {"\\", "\"", "\n", "\t", "n", "t"}
Literals == Strings(EscChars, MaxChoiceLen)

EscInit ==
    /\ ServerInit
    /\ cpc = "e_in"
    /\ creq \in {[a |-> x, b |-> y, ea |-> <<>>, eb |-> <<>>] : x, y \in Literals}
    /\ fs = EmptyFs

Escape ==
    /\ cpc = "e_in"
    /\ cpc' = "e_out"
    /\ creq' = [creq EXCEPT !.ea = Esc(creq.a), !.eb = Esc(creq.b)]
    /\ UNCHANGED <<svars, fs>>

EscSpec == EscInit /\ [][Escape]_vars

(***************************************************************************)
(* Scheduling: a thread that can take a step eventually takes it.  Nothing *)
(* is assumed of the child process.                                        *)
(***************************************************************************)
FairSpec == Spec /\ WF_vars(CallerStep) /\ WF_vars(WorkerStep)

(***************************************************************************)
(* Properties.                                                             *)
(***************************************************************************)
Failed == pc \in {"cleanup", "raised"}
Returned == handle.valid

\* C1: once the child is spawned, start_server eventually hands control back
\* to the caller (a handle, or an error such as the TimeoutError of a health
\* wait that never succeeded), unless it saw the child exit; in particular a
\* child that stays alive and keeps its output open cannot hold the call.
C1_StartReturnsControl ==
    (pc = "wh_check") ~> (pc \in {"raised", "ready", "body"} \/ hist.observedExit)

\* C2 as stated: a start fails with a live child only if the endpoint did not
\* become ready before health_timeout elapsed, and TimeoutError is raised only
\* if it did not become ready before health_timeout elapsed.
C2_ReadyInTimeGivesHandle ==
    /\ (Failed /\ child = "alive") => ~hist.readyInTime
    /\ (err.kind = "TimeoutError") => ~hist.readyInTime

\* C2 amended: start_server returns a handle, for the port asked for, exactly
\* when one of the health requests it made before health_timeout elapsed met
\* an endpoint answering 200; TimeoutError is raised only when no request was
\* answered 200 and health_timeout has elapsed.
C2_PollDecides ==
    /\ Returned <=> hist.okPoll
    /\ Returned => (handle.port = hist.port /\ err = NoErr)
    /\ (err.kind = "TimeoutError") =>
           (~hist.okPoll /\ ~Returned /\ elapsed >= call.health_timeout)

C2_Witness ==
    /\ pc = "ready"
    /\ handle.port = MaxPort
    /\ hist.readyInTime

ValidationError(e) ==
    /\ e.kind \in {"ValueError", "TypeError", "FileNotFoundError"}
    /\ e.site \in {"bind", "validate"}

Rejected ==
    /\ pc' = "raised"
    /\ ValidationError(err')
    /\ child' = "none"
    /\ ~hist'.requested

\* The calls C3 speaks of, n_ctx and n_gpu_layers aside.
InvalidOther(c) ==
    \/ (c.port # Missing /\ (NotPositiveInt(c.port) \/ c.port.v > MaxPort))
    \/ BadOptional(c.threads) \/ BadOptional(c.http_threads) \/ BadOptional(c.slots)
    \/ c.model_path = "" \/ ~PathExists(c.model_path)
    \/ c.extra_args \in {"str", "badelem"}

InvalidRequired(x) == x = Missing \/ NotPositiveInt(x)

\* C3 as stated: a call in which n_ctx, n_gpu_layers or port is missing or
\* not positive, the port exceeds 65535, a thread or slot count is given and
\* not positive, model_path is empty or does not exist, or extra_args is
\* malformed, raises a validation error and spawns no child and makes no
\* health request.
C3_InvalidCallRejected ==
    [][(pc = "called"
        /\ (InvalidRequired(call.n_ctx) \/ InvalidRequired(call.n_gpu_layers)
            \/ InvalidRequired(call.port) \/ InvalidOther(call)))
       => Rejected]_vars

\* C3 amended: the same, for a call in which n_ctx or n_gpu_layers is missing
\* or not positive, or port is given and not positive or above 65535, or one
\* of the other options is invalid; an omitted port is the default 8080.
C3_InvalidGivenRejected ==
    [][(pc = "called"
        /\ (InvalidRequired(call.n_ctx) \/ InvalidRequired(call.n_gpu_layers)
            \/ InvalidOther(call)))
       => Rejected]_vars

C3_Witness ==
    /\ pc = "raised"
    /\ call.port = Int_(MaxPort + 1)
    /\ call.model_path = "model.gguf"
    /\ err = Raise("ValueError", "validate")
    /\ child = "none"


\* C4: once a terminate() call has returned, is_alive() is false and no
\* later operation of the handle signals the process group.
C4_TerminatedStaysDead ==
    hist.termReturned =>
        (~is_alive(child) /\ \A i \in 1 .. Len(sigLog) : ~sigLog[i].late)

Exited == child \in {"zombie", "reaped"}

\* C5: an operation of the handle called on a child that has exited, be it
\* terminate(), kill() or the terminate() of __exit__, signals no process
\* group, raises nothing, returns at once, and is_alive() is false before
\* and after it.
C5_IdempotentOnExited ==
    [][(Exited /\ ((Holding /\ ops' = ops + 1) \/ (pc = "exit" /\ pc' # pc)))
       => /\ sigLog' = <<>>
          /\ hist'.opErr = "none"
          /\ pc' = (IF pc = "exit" THEN "left" ELSE pc)
          /\ ~is_alive(child)
          /\ ~is_alive(child')]_vars

C5_Witness ==
    /\ pc = "ready"
    /\ ops = MaxOps
    /\ hist.termReturned
    /\ hist.wait = "none"
    /\ sigLog = <<>>
    /\ child = "reaped"

InTerminate == Len(sigLog) > 0 /\ sigLog[1].by = "terminate"

\* C6: terminate() on a live child signals SIGTERM to the process group
\* first and then waits; SIGKILL follows in the same call only after the
\* SIGTERM step failed or the wait timed out, and never when the wait saw the
\* child exit.
C6_TermBeforeKill ==
    /\ pc \in {"t_wait", "t_kill"} =>
           (Len(sigLog) = 1 /\ InTerminate /\ sigLog[1].sig = "SIGTERM"
            /\ sigLog[1].to = "group")
    /\ pc = "t_wait" => sigLog[1].ok
    /\ InTerminate =>
           /\ sigLog[1].sig = "SIGTERM"
           /\ \A i \in 2 .. Len(sigLog) :
                  /\ i = 2
                  /\ sigLog[i].sig = "SIGKILL"
                  /\ sigLog[i].to = "group"
                  /\ (~sigLog[1].ok \/ hist.wait = "timeout")
           /\ hist.wait = "exited" => Len(sigLog) = 1

C6_Witness ==
    /\ pc = "ready"
    /\ Len(sigLog) = 2
    /\ InTerminate
    /\ sigLog[1].ok
    /\ hist.wait = "timeout"

\* C7: the with-block is entered on the handle start_server returned, and
\* when it is left terminate() has run, the child is terminated and the
\* error of the body, if any, propagates.
C7_ScopedExitTerminates ==
    /\ pc \in {"body", "exit"} => (scope.entered /\ handle.valid)
    /\ scope.left =>
           /\ scope.entered
           /\ hist.termReturned
           /\ ~is_alive(child)
           /\ scope.propagated = scope.bodyErr

C9_MissingBinaryIsLaunchError ==
    (pc = "raised" /\ binpath = "") =>
        (err.kind = "ServerLaunchError" /\ child = "none")


LoadingTwiceThenOk ==
    /\ cpc \in {"attempt", "returned", "raised"}
    /\ ScriptAnswer(creq.script, 1).kind = "loading"
    /\ ScriptAnswer(creq.script, 2).kind = "loading"
    /\ ScriptAnswer(creq.script, 3).kind = "ok"

\* C10 as stated: whatever retries is, a get_response call answered by two
\* "Loading model" errors and then a completion ends by returning that
\* completion's text after exactly three requests, with no error.
C10_LoadingTwiceThenOkReturns ==
    (LoadingTwiceThenOk /\ cpc \in {"returned", "raised"}) =>
        /\ cpc = "returned"
        /\ creq.requests = 3
        /\ creq.result = Strip(ScriptAnswer(creq.script, 3).content)
        /\ creq.error = "none"

\* C10 amended: the same for retries >= 3; the text returned is the
\* completion's text stripped of leading and trailing whitespace.  While the
\* call runs it has surfaced no error and made at most three requests.
C10_LoadingTwiceThenOkReturnsIfRetries3 ==
    (LoadingTwiceThenOk /\ creq.retries >= 3) =>
        /\ cpc # "raised"
        /\ creq.error = "none"
        /\ creq.requests <= 3
        /\ cpc = "attempt" => creq.requests < 3
        /\ cpc = "returned" =>
               /\ creq.requests = 3
               /\ creq.sleeps = 2
               /\ creq.result = <<"a">>

C10_Witness ==
    /\ LoadingTwiceThenOk
    /\ cpc = "returned"
    /\ creq.retries = 3
    /\ ScriptAnswer(creq.script, 3).content = <<" ", "a", "\n">>
    /\ creq.result = <<"a">>


\* The answer of the server to the request the next pass of the loop makes.
NextAnswer == ScriptAnswer(creq.script, creq.attempt)

InLoop == cpc = "attempt" /\ creq.attempt <= creq.retries

\* C11: when the server answers an attempt with a 400, get_response raises
\* on that same attempt a RuntimeError that carries the text of the response,
\* without a retry delay and without a further request, however many retries
\* remain and whatever was answered before.
C11_BadRequestRaisesAtOnce ==
    [][/\ (InLoop /\ NextAnswer.kind = "bad") =>
              /\ cpc' = "raised"
              /\ creq'.error = "RuntimeError"
              /\ creq'.msg = "400 Bad Request from server"
              /\ creq'.body = NextAnswer.content
              /\ creq'.requests = creq.attempt
              /\ creq'.requests = creq.requests + 1
              /\ creq'.sleeps = creq.sleeps
       /\ (cpc = "raised") => creq' = creq]_vars

C11_Witness ==
    /\ cpc = "raised"
    /\ creq.msg = "400 Bad Request from server"
    /\ creq.body = <<"e">>
    /\ creq.retries = MaxRetries
    /\ creq.requests = 3
    /\ creq.sleeps = 2


\* The failures get_response retries: "Loading model", any exception other
\* than InternalServerError and BadRequestError, and a completion without a
\* text.  An attempt succeeds when it is answered by a completion with a text.
RetryableKinds == {"loading", "other", "ok_none"}
AnswerTo(k) == ScriptAnswer(creq.script, k)
AllRetryable == \A k \in 1 .. creq.retries : AnswerTo(k).kind \in RetryableKinds
SuccessAt(k) ==
    /\ AnswerTo(k).kind = "ok"
    /\ \A j \in 1 .. k - 1 : AnswerTo(j).kind \in RetryableKinds \cup {"ok"}
ExhaustedError ==
    cpc = "raised" /\ creq.error = "RuntimeError" /\ creq.msg = "Failed after attempts"

C12_Bounded ==
    cpc \in {"attempt", "returned", "raised"} =>
        /\ creq.requests <= creq.retries
        /\ creq.sleeps <= creq.requests
        /\ ExhaustedError <=> (cpc # "attempt" /\ AllRetryable)
        /\ ExhaustedError =>
               /\ creq.requests = creq.retries
               /\ creq.last_err = (IF creq.retries = 0 THEN "None"
                                   ELSE AnswerTo(creq.retries).kind)
        /\ cpc = "returned" <=>
               (cpc # "attempt" /\ \E k \in 1 .. creq.retries : SuccessAt(k))
        /\ cpc = "returned" =>
               \E k \in 1 .. creq.retries :
                   /\ SuccessAt(k)
                   /\ creq.requests = k
                   /\ creq.result = Strip(AnswerTo(k).content)

C13_OnlyLoadingRetried ==
    [][(InLoop /\ NextAnswer.kind \notin {"ok", "loading"}) =>
           /\ cpc' = "raised"
           /\ creq'.error # "none"
           /\ creq'.requests = creq.attempt
           /\ creq'.sleeps = creq.sleeps]_vars


Waiting == cpc \in {"w_poll", "w_sleep"}

C14_Polls ==
    /\ cpc \in {"w_sleep", "w_returned", "w_raised"} => creq.polled
    /\ cpc = "w_sleep" => (~creq.succeeded /\ creq.elapsed <= creq.timeout)
    /\ cpc = "w_returned" => (creq.succeeded /\ creq.error = "none")
    /\ cpc = "w_raised" =>
           /\ creq.error = "TimeoutError"
           /\ ~creq.succeeded
           /\ creq.elapsed > creq.timeout

C14_Step ==
    /\ (cpc = "w_poll" /\ creq'.succeeded) => cpc' = "w_returned"
    /\ (cpc = "w_poll" /\ cpc' = "w_sleep") => creq'.elapsed <= creq.timeout
    /\ cpc = "w_sleep" =>
           (cpc' = "w_poll" /\ creq'.elapsed = creq.elapsed + creq.interval)
    /\ cpc \in {"w_returned", "w_raised"} => creq' = creq

\* C14: wait_model_ready polls the models-listing endpoint, sleeping the
\* given interval between polls, and returns as soon as a poll succeeds; while
\* no poll succeeds it goes on until a failed poll ends after more than the
\* timeout, and then raises TimeoutError.  It polls at least once, also with
\* timeout 0, and never raises TimeoutError after a poll that succeeded.
C14_ReadyWait ==
    /\ []C14_Polls
    /\ [][C14_Step]_vars
    /\ Waiting ~> (cpc \in {"w_returned", "w_raised"})

C14_Witness ==
    /\ cpc = "w_raised"
    /\ creq.timeout = 0
    /\ creq.polled
    /\ creq.elapsed = 1 + creq.interval


\* C15: start_server creates the log-relay worker only when its health wait
\* has succeeded and stream_logs is true and log_disable is false, and then
\* it does create it, once: a worker is never created anew.  A call that
\* fails creates none, and the log_thread of the handle is None exactly when
\* no worker was created.
C15_SingleWorker ==
    [][/\ (logThread = "none" /\ logThread' # "none") =>
              /\ pc = "wh_request"
              /\ health = 200
              /\ call.stream_logs /\ ~call.log_disable
              /\ logThread' = "running"
              /\ ~handle.valid /\ handle'.valid
       /\ (pc = "wh_request" /\ handle'.valid /\ call.stream_logs
           /\ ~call.log_disable) => logThread' = "running"
       /\ logThread # "none" => logThread' \in {logThread, "done"}
       /\ logThread = "done" => logThread' = "done"
       /\ pc' \in {"cleanup", "raised"} => (logThread' = "none" /\ ~handle'.valid)
       /\ (handle'.log_thread = "none") <=> (logThread' = "none")]_vars

C15_Witness ==
    /\ pc = "ready"
    /\ handle.valid
    /\ handle.log_thread = "thread"
    /\ logThread = "done"
    /\ relayed # <<>>


\* The lines the child has written, in the order written.
Lines(n) == [i \in 1 .. n |-> i]

\* C16 as stated: the worker relays the lines in the order written, and once
\* the child has exited the worker eventually finishes.
C16_WorkerEndsAfterChildExit ==
    /\ [](logThread # "none" => relayed \o pipe = Lines(written))
    /\ (logThread = "running" /\ Exited) ~> (logThread = "done")

\* C16 amended: what the worker has printed, followed by what it has not yet
\* read, is what the child has written, in that order; every line written is
\* eventually printed; the worker ends by a step of its own, only at end of
\* file, and once every write end of the child's output is closed it
\* eventually ends.
C16_WorkerEndsAfterStreamCloses ==
    /\ [](logThread # "none" => relayed \o pipe = Lines(written))
    /\ [](logThread = "done" => (~outOpen /\ relayed = Lines(written)))
    /\ [][(logThread = "running" /\ logThread' = "done") => pc' = pc]_vars
    /\ (logThread = "running") ~> (pipe = <<>>)
    /\ (logThread = "running" /\ ~outOpen) ~> (logThread = "done")

C16_Witness ==
    /\ logThread = "done"
    /\ relayed = Lines(MaxLines)
    /\ child = "reaped"
    /\ hist.termReturned


\* A valid identifier: a letter or underscore, then letters, digits and
\* underscores, and nothing else.
ValidIdentifier(name) == IdentBody(name)

GrammarDone == cpc \in {"g_returned", "g_raised"}

\* The file multiple_choice_grammar is to write for the call in creq.
ExpectedFile ==
    [dir |-> SaveDir, name |-> Filename(creq.name, creq.thinking),
     content |-> creq.result]

\* C17: multiple_choice_grammar raises a validation error, writes no file and
\* creates no directory when the choice list is empty or the name is not a
\* valid identifier; otherwise it writes exactly one file, thinking_<name>.gbnf
\* if thinking is true and <name>.gbnf if not, whose content is the text it
\* returns.
C17_GrammarValidatesThenWrites ==
    GrammarDone =>
        IF creq.choices = <<>> \/ ~ValidIdentifier(creq.name)
        THEN /\ cpc = "g_raised"
             /\ creq.error = "ValueError"
             /\ fs = creq.before
        ELSE /\ cpc = "g_returned"
             /\ creq.result = Content(creq.choices, creq.name, creq.thinking)
             /\ ExpectedFile \in fs.files
             /\ fs.files \ creq.before.files = {ExpectedFile}
             /\ \A x \in fs.files :
                    (x.dir = ExpectedFile.dir /\ x.name = ExpectedFile.name)
                        => x = ExpectedFile
             /\ \A x \in creq.before.files \ fs.files :
                    x.dir = ExpectedFile.dir /\ x.name = ExpectedFile.name


\* Decoding of an escaped literal, read from the left: \\ is a backslash,
\* \" a double quote, \n a newline, \t a tab.
RECURSIVE Decode(_)
Decode(s) ==
    IF s = <<>> THEN <<>>
    ELSE IF Head(s) = "\\" /\ Len(s) >= 2
         THEN (CASE s[2] = "\\" -> <<"\\">>
                 [] s[2] = "\"" -> <<"\"">>
                 [] s[2] = "n" -> <<"\n">>
                 [] s[2] = "t" -> <<"\t">>
                 [] OTHER -> <<"\\", s[2]>>)
              \o Decode(SubSeq(s, 3, Len(s)))
         ELSE <<Head(s)>> \o Decode(Tail(s))

\* A double quote that no backslash escapes.
RECURSIVE UnescapedQuote(_)
UnescapedQuote(s) ==
    IF s = <<>> THEN FALSE
    ELSE IF Head(s) = "\\" /\ Len(s) >= 2 THEN UnescapedQuote(SubSeq(s, 3, Len(s)))
    ELSE IF Head(s) = "\"" THEN TRUE
    ELSE UnescapedQuote(Tail(s))

\* C18: the escaping of a choice literal is reversible: decoding the escaped
\* text gives back the literal, two different literals never have the same
\* escaped text, and the escaped text holds no unescaped double quote.
C18_EscapingReversible ==
    cpc = "e_out" =>
        /\ Decode(creq.ea) = creq.a
        /\ Decode(creq.eb) = creq.b
        /\ creq.a # creq.b => creq.ea # creq.eb
        /\ ~UnescapedQuote(creq.ea)
        /\ ~UnescapedQuote(creq.eb)

C18_Witness ==
    /\ cpc = "e_out"
    /\ creq.a = <<"\\", "n">>
    /\ creq.b = <<"\n">>
    /\ creq.ea = <<"\\", "\\", "n">>
    /\ creq.eb = <<"\\", "n">>


\* C19: when start_server raises after the child was spawned, SIGTERM has
\* been sent to the process group of the child, no handle exists, and the
\* child is not left running.
C19_FailedStartLeavesNoServer ==
    (pc = "raised" /\ child # "none") =>
        /\ Len(sigLog) = 1
        /\ sigLog[1].sig = "SIGTERM"
        /\ sigLog[1].to = "group"
        /\ sigLog[1].by = "start_server"
        /\ ~handle.valid
        /\ child # "alive"

\* C20: terminate() raises nothing and returns to its caller, whatever the
\* state of the child and whether or not killpg or wait(timeout) failed.
C20_TerminateNeverRaises ==
    /\ [](hist.opErr = "none")
    /\ [][/\ pc = "t_wait" => pc' \in {"t_wait", "t_kill", ret}
          /\ pc = "t_kill" => pc' \in {"t_kill", ret}
          /\ (pc \in {"t_wait", "t_kill"} /\ pc' = ret) => hist'.termReturned]_vars
    /\ (pc \in {"t_wait", "t_kill"}) ~> (pc \in {"ready", "body", "left"})

C20_Witness ==
    /\ pc = "ready"
    /\ hist.termReturned
    /\ Len(sigLog) = 1
    /\ sigLog[1].by = "terminate"
    /\ ~sigLog[1].ok
    /\ child = "reaped"


\* start_server has raised without having spawned a child.
FailedBeforeSpawn == pc = "raised" /\ child = "none"

\* C21: a start_server call that fails before it spawns a child, by a
\* validation error or because the server binary is missing, leaves
\* os.environ as it was: no variable of env and no search-path prefix has
\* been written.
C21_FailedPrefixLeavesEnviron ==
    FailedBeforeSpawn => environ = InitEnviron

\* The part of C21 that concerns validation errors alone.
C21_ValidationLeavesEnviron ==
    (FailedBeforeSpawn /\ ValidationError(err)) => environ = InitEnviron


\* The calling thread is at a read of the child's output: readlines() of
\* _wait_health or read() of the failure handler.
CallerAtRead == pc \in {"wh_exited", "cleanup"}

\* A step of an operation of the handle: is_alive, wait, kill, terminate,
\* or the terminate of __exit__.
HandleStep ==
    \/ Holding /\ ops' = ops + 1
    \/ pc \in {"exit", "t_wait", "t_kill"} /\ pc' # pc

\* A step that takes something out of the child's output.
Consumes == Len(pipe') < Len(pipe)

C22_Step ==
    /\ Consumes =>
           \/ CallerAtRead /\ pc' # pc /\ logThread = "none" /\ ~handle.valid
           \/ /\ logThread = "running"
              /\ handle.valid
              /\ relayed' = Append(relayed, Head(pipe))
              /\ pc' = pc /\ ops' = ops
    /\ (tail' # tail \/ hist'.leftover # hist.leftover) =>
           (CallerAtRead /\ logThread = "none")
    /\ relayed' # relayed => (logThread = "running" /\ ~CallerAtRead)
    /\ HandleStep =>
           (pipe' = pipe /\ tail' = tail /\ relayed' = relayed
            /\ hist'.leftover = hist.leftover)

\* C22: the child's output has at most one reader at any time.  The calling
\* thread reads it only inside start_server, where _wait_health saw the child
\* exit and in the failure handler; the worker reads it only once the health
\* wait has succeeded; no operation of the handle reads it; the two threads
\* are never both at a read.
C22_SingleReader ==
    /\ [](~(CallerAtRead /\ logThread = "running"))
    /\ [](logThread # "none" => (handle.valid /\ hist.okPoll))
    /\ [](CallerAtRead => ~handle.valid)
    /\ [][C22_Step]_vars

C22_Witness ==
    /\ pc = "ready"
    /\ hist.termReturned
    /\ hist.wait = "exited"
    /\ logThread = "running"
    /\ Len(pipe) = 1
    /\ Len(relayed) = 1

=============================================================================
